---- MODULE Spec2Model ----
(***************************************************************************)
(* The task-management models (User, Project, Task, Tag) and the store     *)
(* they are persisted in.                                                  *)
(*                                                                         *)
(* A JavaScript string is a sequence of one-character strings, so that     *)
(* the regular expressions and toLowerCase() act on characters.  A Date is *)
(* a number of clock ticks.  A request is a record holding exactly the     *)
(* fields the caller gave: an omitted field is absent from its DOMAIN.     *)
(* The columns createdAt, updatedAt and description are not read by any    *)
(* model method or validator and are left out of the records.              *)
(***************************************************************************)
EXTENDS Integers, Sequences, FiniteSets, TLC

VARIABLES users, projects, tasks, tags, taskTags, nextId, now, last

vars == <<users, projects, tasks, tags, taskTags, nextId, now, last>>

store == <<users, projects, tasks, tags, taskTags>>

(***************************************************************************)
(* Bounds of the model.                                                    *)
(***************************************************************************)
\* rows ever inserted into the users table
MaxUsers == 2
\* rows ever inserted into the projects table
MaxProjects == 2
\* rows ever inserted into the tasks table
MaxTasks == 2
\* rows ever inserted into the tags table
MaxTags == 2
\* last tick of the clock
MaxTime == 2
\* rows ever inserted into the tasks table where task counts are computed
MaxCounted == 3
\* rows ever inserted into the projects table where projects are counted
MaxOwned == 3

(***************************************************************************)
(* null, for each type of column.                                          *)
(***************************************************************************)
\* null where a string is expected: no string, since "<null>" is no character
NullStr == <<"<null>">>
\* null where one of the enum literals is expected
NullEnum == "<null>"
\* null where a Date or an id is expected (Dates and ids are >= 0)
NullNum == 0 - 1

Has(req, f) == f \in DOMAIN req

\* req[f], or d when the caller omitted f
Get(req, f, d) == IF Has(req, f) THEN req[f] ELSE d

(***************************************************************************)
(* Characters.                                                             *)
(***************************************************************************)
UpperSeq == <<"A","B","C","D","E","F","G","H","I","J","K","L","M",
              "N","O","P","Q","R","S","T","U","V","W","X","Y","Z">>

LowerSeq == <<"a","b","c","d","e","f","g","h","i","j","k","l","m",
              "n","o","p","q","r","s","t","u","v","w","x","y","z">>

Range(s) == { s[i] : i \in DOMAIN s }

Upper == Range(UpperSeq)

Lower == Range(LowerSeq)

Letter == Upper \cup Lower

Digit == {"0","1","2","3","4","5","6","7","8","9"}

\* the class [!@#$%^&*()_\-+=\[\]{};':"\\|,.<>/?]
Special == {"!","@","#","$","%","^","&","*","(",")","_","-","+","=","[","]",
            "{","}",";","'",":","\"","\\","|",",",".","<",">","/","?"}

\* what "." of a regular expression does not match
LineTerminator == {"\n", "\r"}

\* /^(?=.*[cls])/.test(value): a character of cls that only characters
\* matched by "." precede
TestLookahead(value, cls) ==
    \E i \in DOMAIN value :
        /\ value[i] \in cls
        /\ \A j \in 1..(i - 1) : value[j] \notin LineTerminator

\* String.prototype.toLowerCase, one character
LowerChar(c) ==
    IF c \in Upper
    THEN LowerSeq[CHOOSE i \in DOMAIN UpperSeq : UpperSeq[i] = c]
    ELSE c

\* a toLowerCase that stops after the first character
toLowerCaseFirst(value) ==
    [i \in DOMAIN value |-> IF i = 1 THEN LowerChar(value[i]) ELSE value[i]]

\* String.prototype.toLowerCase
toLowerCase(value) == [i \in DOMAIN value |-> LowerChar(value[i])]

\* validator "len: [min, max]"
len(value, min, max) == Len(value) >= min /\ Len(value) <= max

(***************************************************************************)
(* Validation and storage errors.  A validation error is a set of          *)
(* <<field, message>>; the storage layer answers with its own kinds.       *)
(***************************************************************************)
NoErrors == {}

\* allowNull: false
notNull(model, f) == model \o " " \o f \o " cannot be null"

\* a built-in validator that failed
builtin(name, f) == "Validation " \o name \o " on " \o f \o " failed"

Ok == "ok"

ValidationError == "SequelizeValidationError"

Conflict == "SequelizeUniqueConstraintError"

ForeignKeyError == "SequelizeForeignKeyConstraintError"

\* the outcome of a write: what was asked, how it ended, and on a
\* validation error its messages; `at` is the clock when it ran
Outcome(op, req, id, kind, errors) ==
    [op |-> op, req |-> req, id |-> id, kind |-> kind, errors |-> errors,
     at |-> now]

\* the outcome of a read: the value returned
Returned(op, id, ret) == [op |-> op, id |-> id, ret |-> ret, at |-> now]

NoRequest == <<>>

(***************************************************************************)
(* User                                                                    *)
(***************************************************************************)
UserFields == {"username", "email", "password", "firstName", "lastName"}

\* username: ValidateUserName
ValidateUserName(value) ==
    IF TestLookahead(value, Special)
    THEN {"User name should not contain any special characters"}
    ELSE NoErrors

\* /^[a-zA-Z0-9._%+-]+@[a-zA-Z0-9.-]+\.[a-zA-Z]{2,}/.test(value)
EmailRegex(value) ==
    \E at \in 2..Len(value) : \E dot \in (at + 2)..(Len(value) - 2) :
        /\ \A i \in 1..(at - 1) :
               value[i] \in Letter \cup Digit \cup {".", "_", "%", "+", "-"}
        /\ value[at] = "@"
        /\ \A i \in (at + 1)..(dot - 1) :
               value[i] \in Letter \cup Digit \cup {".", "-"}
        /\ value[dot] = "."
        /\ value[dot + 1] \in Letter
        /\ value[dot + 2] \in Letter

\* email: ValidateEmail
ValidateEmail(value) ==
    IF ~EmailRegex(value)
    THEN {"Email is not in a valid format"}
    ELSE NoErrors

\* a setter that has no early return: it stores null too
SetEmailNullToo(data, value) ==
    [data EXCEPT !.email = IF value = NullStr THEN NullStr ELSE toLowerCase(value)]

\* a setter that stores the value as given
SetEmailAsGiven(data, value) ==
    IF value = NullStr
    THEN data
    ELSE [data EXCEPT !.email = value]

\* email: set(value); data is the instance's dataValues
SetEmail(data, value) ==
    IF value = NullStr
    THEN data
    ELSE [data EXCEPT !.email = toLowerCase(value)]

\* password: ValidatePassword, which throws at the first check that fails
ValidatePassword(value) ==
    IF ~TestLookahead(value, Upper)
    THEN {"Password does not contain at least one uppercase letter"}
    ELSE IF ~TestLookahead(value, Digit)
    THEN {"Password does not contain at least one number"}
    ELSE IF ~TestLookahead(value, Special)
    THEN {"Password does not contain at least one special character"}
    ELSE NoErrors

\* firstName: ValidateName
ValidateFirstName(value) ==
    IF TestLookahead(value, Digit)
    THEN {"lastName should not contain any numbers"}
    ELSE IF TestLookahead(value, Special)
    THEN {"firstName should not contain any special characters"}
    ELSE NoErrors

\* lastName: ValidateName
ValidateLastName(value) ==
    IF TestLookahead(value, Digit)
    THEN {"lastName should not contain any numbers"}
    ELSE IF TestLookahead(value, Special)
    THEN {"lastName should not contain any special characters"}
    ELSE NoErrors

\* the messages of one attribute of User: a null never reaches the
\* attribute's validators, every validator of the attribute runs otherwise
UserFieldMessages(data, f) ==
    IF data[f] = NullStr THEN {notNull("User", f)}
    ELSE CASE f = "username" ->
                (IF len(data[f], 3, 30) THEN NoErrors ELSE {builtin("len", f)})
                    \cup ValidateUserName(data[f])
           [] f = "email" -> ValidateEmail(data[f])
           [] f = "password" ->
                (IF len(data[f], 8, 100) THEN NoErrors ELSE {builtin("len", f)})
                    \cup ValidatePassword(data[f])
           [] f = "firstName" ->
                (IF len(data[f], 2, 50) THEN NoErrors ELSE {builtin("len", f)})
                    \cup ValidateFirstName(data[f])
           [] f = "lastName" ->
                (IF len(data[f], 2, 50) THEN NoErrors ELSE {builtin("len", f)})
                    \cup ValidateLastName(data[f])

\* a validation that leaves firstName out
UserValidateButFirstName(data, fields) ==
    UNION { { <<f, m>> : m \in UserFieldMessages(data, f) } : f \in fields \ {"firstName"} }

\* instance.validate() over the attributes `fields`
UserValidate(data, fields) ==
    UNION { { <<f, m>> : m \in UserFieldMessages(data, f) } : f \in fields }

\* instance.set(req): the custom setter of email, plain assignment otherwise
UserSet(data, req) ==
    LET plain == [f \in UserFields |->
                    IF Has(req, f) /\ f # "email" THEN req[f] ELSE data[f]]
    IN  IF Has(req, "email") THEN SetEmail(plain, req.email) ELSE plain

\* a users table whose only unique index is on username
UserUniqueUsername(data, id) ==
    \A u \in users : u.id # id => u.username # data.username

\* the unique indexes of the users table, for a row about to be written
UserUnique(data, id) ==
    \A u \in users :
        u.id # id => u.username # data.username /\ u.email # data.email

UserRow(data, id) ==
    [id |-> id, username |-> data.username, email |-> data.email,
     password |-> data.password, firstName |-> data.firstName,
     lastName |-> data.lastName]

UserData(u) == [f \in UserFields |-> u[f]]

NewUser == [f \in UserFields |-> NullStr]

(***************************************************************************)
(* Project                                                                 *)
(***************************************************************************)
ProjectFields == {"name", "status", "startDate", "endDate", "userId"}

ProjectStatus == {"active", "completed", "on_hold", "cancelled"}

\* Project.status: ValidateStatus
ValidateProjectStatus(value) ==
    IF value = NullEnum
    THEN {"Status is null"}
    ELSE IF value # "active" /\ value # "completed" /\ value # "on_hold"
            /\ value # "cancelled"
    THEN {"Status had unexpected value. Look to ProjectStatus for correct values"}
    ELSE NoErrors

\* a comparison that lets endDate be startDate
isAfterStartDateOrEqual(value, project) ==
    IF value < (IF project.startDate = NullNum THEN 0 ELSE project.startDate)
    THEN {"End date must be after start date"}
    ELSE NoErrors

\* Project.endDate: isAfterStartDate, against the instance's startDate
\* (a null startDate compares as 0)
isAfterStartDate(value, project) ==
    IF value <= (IF project.startDate = NullNum THEN 0 ELSE project.startDate)
    THEN {"End date must be after start date"}
    ELSE NoErrors

ProjectIsNull(data, f) ==
    CASE f = "name" -> data[f] = NullStr
      [] f = "status" -> data[f] = NullEnum
      [] OTHER -> data[f] = NullNum

ProjectFieldMessages(data, f) ==
    IF ProjectIsNull(data, f) THEN {notNull("Project", f)}
    ELSE CASE f = "name" ->
                IF len(data[f], 3, 100) THEN NoErrors ELSE {builtin("len", f)}
           [] f = "status" -> ValidateProjectStatus(data[f])
           [] f = "endDate" -> isAfterStartDate(data[f], data)
           [] OTHER -> NoErrors

ProjectValidate(data, fields) ==
    UNION { { <<f, m>> : m \in ProjectFieldMessages(data, f) } : f \in fields }

\* Project.build(req): defaultValue 'active' and DataTypes.NOW fill what the
\* caller omitted
NewProject(req) ==
    [name |-> Get(req, "name", NullStr),
     status |-> Get(req, "status", "active"),
     startDate |-> Get(req, "startDate", now),
     endDate |-> Get(req, "endDate", NullNum),
     userId |-> Get(req, "userId", NullNum)]

ProjectSet(data, req) ==
    [f \in ProjectFields |-> IF Has(req, f) THEN req[f] ELSE data[f]]

ProjectRow(data, id) ==
    [id |-> id, name |-> data.name, status |-> data.status,
     startDate |-> data.startDate, endDate |-> data.endDate,
     userId |-> data.userId]

ProjectData(p) == [f \in ProjectFields |-> p[f]]

\* userId: references users(id)
ProjectReferences(data) == \E u \in users : u.id = data.userId

(***************************************************************************)
(* Task                                                                    *)
(***************************************************************************)
TaskFields == {"title", "status", "dueDate", "priority", "userId", "projectId"}

TaskStatus == {"pending", "in_progress", "completed", "cancelled"}

TaskPriority == {"low", "medium", "high"}

\* a ValidateStatus that checks for null only
ValidateTaskStatusNullOnly(value) ==
    IF value = NullEnum
    THEN {"Status is null"}
    ELSE NoErrors

\* Task.status: ValidateStatus
ValidateTaskStatus(value) ==
    IF value = NullEnum
    THEN {"Status is null"}
    ELSE IF value # "pending" /\ value # "in_progress" /\ value # "completed"
            /\ value # "cancelled"
    THEN {"Status had unexpected value. Look to TaskStatus for correct values"}
    ELSE NoErrors

\* a comparison that lets dueDate be the current time
isFutureDateOrNow(value) ==
    IF value < now
    THEN {"Due date must be in the future"}
    ELSE NoErrors

\* Task.dueDate: isFutureDate, against the clock
isFutureDate(value) ==
    IF value <= now
    THEN {"Due date must be in the future"}
    ELSE NoErrors

\* Task.priority: ValidatePriority
ValidatePriority(value) ==
    IF value = NullEnum
    THEN {"Priority is null"}
    ELSE IF value # "low" /\ value # "medium" /\ value # "high"
    THEN {"Priority had unexpected value. Look to TaskPriority for correct values"}
    ELSE NoErrors

TaskIsNull(data, f) ==
    CASE f = "title" -> data[f] = NullStr
      [] f \in {"status", "priority"} -> data[f] = NullEnum
      [] OTHER -> data[f] = NullNum

TaskFieldMessages(data, f) ==
    IF TaskIsNull(data, f) THEN {notNull("Task", f)}
    ELSE CASE f = "title" ->
                IF len(data[f], 3, 100) THEN NoErrors ELSE {builtin("len", f)}
           [] f = "status" -> ValidateTaskStatus(data[f])
           [] f = "dueDate" -> isFutureDate(data[f])
           [] f = "priority" -> ValidatePriority(data[f])
           [] OTHER -> NoErrors

TaskValidate(data, fields) ==
    UNION { { <<f, m>> : m \in TaskFieldMessages(data, f) } : f \in fields }

\* Task.build(req): defaultValue 'pending' and 'medium'
NewTask(req) ==
    [title |-> Get(req, "title", NullStr),
     status |-> Get(req, "status", "pending"),
     dueDate |-> Get(req, "dueDate", NullNum),
     priority |-> Get(req, "priority", "medium"),
     userId |-> Get(req, "userId", NullNum),
     projectId |-> Get(req, "projectId", NullNum)]

TaskSet(data, req) ==
    [f \in TaskFields |-> IF Has(req, f) THEN req[f] ELSE data[f]]

TaskRow(data, id) ==
    [id |-> id, title |-> data.title, status |-> data.status,
     dueDate |-> data.dueDate, priority |-> data.priority,
     userId |-> data.userId, projectId |-> data.projectId]

TaskData(t) == [f \in TaskFields |-> t[f]]

\* userId: references users(id); projectId: references projects(id)
TaskReferences(data) ==
    /\ \E u \in users : u.id = data.userId
    /\ \E p \in projects : p.id = data.projectId

(***************************************************************************)
(* Tag                                                                     *)
(***************************************************************************)
TagFields == {"name", "color"}

HexDigit == Digit \cup {"a","b","c","d","e","f","A","B","C","D","E","F"}

\* a regular expression for "#" and three to six hex digits
ColorRegexThreeToSix(value) ==
    /\ Len(value) \in 4..7
    /\ value[1] = "#"
    /\ \A i \in 2..Len(value) : value[i] \in HexDigit

\* /^#(?:[0-9a-fA-F]{3}|[0-9a-fA-F]{6})$/.test(value)
ColorRegex(value) ==
    /\ Len(value) \in {4, 7}
    /\ value[1] = "#"
    /\ \A i \in 2..Len(value) : value[i] \in HexDigit

\* Tag.color: ValidateColor
ValidateColor(value) ==
    IF value = NullStr
    THEN {"Color is null"}
    ELSE IF ~ColorRegex(value)
    THEN {"Color is not a valid hex code"}
    ELSE NoErrors

\* defaultValue: '#3498db'
DefaultColor == <<"#","3","4","9","8","d","b">>

\* validator "notEmpty: true": no string of white space only
notEmpty(value) == \E i \in DOMAIN value : value[i] \notin {" ", "\t", "\r", "\n"}

TagFieldMessages(data, f) ==
    IF data[f] = NullStr THEN {notNull("Tag", f)}
    ELSE CASE f = "name" ->
                (IF notEmpty(data[f]) THEN NoErrors ELSE {builtin("notEmpty", f)})
                \cup (IF len(data[f], 1, 50) THEN NoErrors ELSE {builtin("len", f)})
           [] f = "color" -> ValidateColor(data[f])

TagValidate(data, fields) ==
    UNION { { <<f, m>> : m \in TagFieldMessages(data, f) } : f \in fields }

NewTag(req) ==
    [name |-> Get(req, "name", NullStr), color |-> Get(req, "color", DefaultColor)]

TagSet(data, req) ==
    [f \in TagFields |-> IF Has(req, f) THEN req[f] ELSE data[f]]

TagRow(data, id) == [id |-> id, name |-> data.name, color |-> data.color]

TagData(t) == [f \in TagFields |-> t[f]]

\* the unique index of the tags table, for a row about to be written
TagUnique(data, id) == \A t \in tags : t.id # id => t.name # data.name

(***************************************************************************)
(* The store: create, update, destroy.  create is build + save, update is  *)
(* set + save on the stored row; save validates (on update only the        *)
(* attributes of the request), then writes, and the tables' constraints    *)
(* (unique indexes, foreign keys) decide the write.                        *)
(***************************************************************************)
ById(rows, id) == CHOOSE r \in rows : r.id = id

Ids(rows) == { r.id : r \in rows }

Bump(table) == [nextId EXCEPT ![table] = @ + 1]

\* fewer than max rows were ever inserted into the table
Room(table, max) == nextId[table] <= max

UserCreate(req) ==
    /\ LET data == UserSet(NewUser, req)
           errors == UserValidate(data, UserFields)
           id == nextId.User
       IN  IF errors # NoErrors
           THEN /\ last' = Outcome("User.create", req, NullNum, ValidationError, errors)
                /\ UNCHANGED <<users, nextId>>
           ELSE IF ~UserUnique(data, NullNum)
           THEN /\ last' = Outcome("User.create", req, NullNum, Conflict, NoErrors)
                /\ UNCHANGED <<users, nextId>>
           ELSE /\ users' = users \cup {UserRow(data, id)}
                /\ nextId' = Bump("User")
                /\ last' = Outcome("User.create", req, id, Ok, NoErrors)
    /\ UNCHANGED <<projects, tasks, tags, taskTags, now>>

UserUpdate(id, req) ==
    /\ id \in Ids(users)
    /\ LET u == ById(users, id)
           data == UserSet(UserData(u), req)
           errors == UserValidate(data, DOMAIN req)
       IN  IF errors # NoErrors
           THEN /\ last' = Outcome("User.update", req, id, ValidationError, errors)
                /\ UNCHANGED users
           ELSE IF ~UserUnique(data, id)
           THEN /\ last' = Outcome("User.update", req, id, Conflict, NoErrors)
                /\ UNCHANGED users
           ELSE /\ users' = (users \ {u}) \cup {UserRow(data, id)}
                /\ last' = Outcome("User.update", req, id, Ok, NoErrors)
    /\ UNCHANGED <<projects, tasks, tags, taskTags, nextId, now>>

\* no rule on delete: no task goes with the user
UserTasksCascadeNone(id) == {}

\* User.hasMany(Task, onDelete: 'CASCADE'): the tasks that go with user id
UserTasksCascade(id) == { t \in tasks : t.userId = id }

\* Project.hasMany(Task, onDelete: 'CASCADE'): the tasks that go with project id
ProjectTasksCascade(id) == { t \in tasks : t.projectId = id }

\* Task.belongsToMany(Tag, through: 'TaskTags'): the join rows that go with
\* the tasks `gone`; the tags stay
TaskTagsCascade(gone) == { tt \in taskTags : tt.taskId \in Ids(gone) }

\* Tag.belongsToMany(Task, through: 'TaskTags'): the join rows that go with tag id
TagTasksCascade(id) == { tt \in taskTags : tt.tagId = id }

\* projects.userId references users(id) and no association gives it an
\* ON DELETE rule: a user some project refers to cannot be deleted
UserRestricted(id) == \E p \in projects : p.userId = id

UserDestroy(id) ==
    /\ id \in Ids(users)
    /\ IF UserRestricted(id)
       THEN /\ last' = Outcome("User.destroy", NoRequest, id, ForeignKeyError, NoErrors)
            /\ UNCHANGED <<users, tasks, taskTags>>
       ELSE /\ users' = users \ {ById(users, id)}
            /\ tasks' = tasks \ UserTasksCascade(id)
            /\ taskTags' = taskTags \ TaskTagsCascade(UserTasksCascade(id))
            /\ last' = Outcome("User.destroy", NoRequest, id, Ok, NoErrors)
    /\ UNCHANGED <<projects, tags, nextId, now>>

ProjectCreate(req) ==
    /\ LET data == NewProject(req)
           errors == ProjectValidate(data, ProjectFields)
           id == nextId.Project
       IN  IF errors # NoErrors
           THEN /\ last' = Outcome("Project.create", req, NullNum, ValidationError, errors)
                /\ UNCHANGED <<projects, nextId>>
           ELSE IF ~ProjectReferences(data)
           THEN /\ last' = Outcome("Project.create", req, NullNum, ForeignKeyError, NoErrors)
                /\ UNCHANGED <<projects, nextId>>
           ELSE /\ projects' = projects \cup {ProjectRow(data, id)}
                /\ nextId' = Bump("Project")
                /\ last' = Outcome("Project.create", req, id, Ok, NoErrors)
    /\ UNCHANGED <<users, tasks, tags, taskTags, now>>

ProjectUpdate(id, req) ==
    /\ id \in Ids(projects)
    /\ LET p == ById(projects, id)
           data == ProjectSet(ProjectData(p), req)
           errors == ProjectValidate(data, DOMAIN req)
       IN  IF errors # NoErrors
           THEN /\ last' = Outcome("Project.update", req, id, ValidationError, errors)
                /\ UNCHANGED projects
           ELSE IF ~ProjectReferences(data)
           THEN /\ last' = Outcome("Project.update", req, id, ForeignKeyError, NoErrors)
                /\ UNCHANGED projects
           ELSE /\ projects' = (projects \ {p}) \cup {ProjectRow(data, id)}
                /\ last' = Outcome("Project.update", req, id, Ok, NoErrors)
    /\ UNCHANGED <<users, tasks, tags, taskTags, nextId, now>>

ProjectDestroy(id) ==
    /\ id \in Ids(projects)
    /\ projects' = projects \ {ById(projects, id)}
    /\ tasks' = tasks \ ProjectTasksCascade(id)
    /\ taskTags' = taskTags \ TaskTagsCascade(ProjectTasksCascade(id))
    /\ last' = Outcome("Project.destroy", NoRequest, id, Ok, NoErrors)
    /\ UNCHANGED <<users, tags, nextId, now>>

TaskCreate(req) ==
    /\ LET data == NewTask(req)
           errors == TaskValidate(data, TaskFields)
           id == nextId.Task
       IN  IF errors # NoErrors
           THEN /\ last' = Outcome("Task.create", req, NullNum, ValidationError, errors)
                /\ UNCHANGED <<tasks, nextId>>
           ELSE IF ~TaskReferences(data)
           THEN /\ last' = Outcome("Task.create", req, NullNum, ForeignKeyError, NoErrors)
                /\ UNCHANGED <<tasks, nextId>>
           ELSE /\ tasks' = tasks \cup {TaskRow(data, id)}
                /\ nextId' = Bump("Task")
                /\ last' = Outcome("Task.create", req, id, Ok, NoErrors)
    /\ UNCHANGED <<users, projects, tags, taskTags, now>>

TaskUpdate(id, req) ==
    /\ id \in Ids(tasks)
    /\ LET t == ById(tasks, id)
           data == TaskSet(TaskData(t), req)
           errors == TaskValidate(data, DOMAIN req)
       IN  IF errors # NoErrors
           THEN /\ last' = Outcome("Task.update", req, id, ValidationError, errors)
                /\ UNCHANGED tasks
           ELSE IF ~TaskReferences(data)
           THEN /\ last' = Outcome("Task.update", req, id, ForeignKeyError, NoErrors)
                /\ UNCHANGED tasks
           ELSE /\ tasks' = (tasks \ {t}) \cup {TaskRow(data, id)}
                /\ last' = Outcome("Task.update", req, id, Ok, NoErrors)
    /\ UNCHANGED <<users, projects, tags, taskTags, nextId, now>>

TaskDestroy(id) ==
    /\ id \in Ids(tasks)
    /\ tasks' = tasks \ {ById(tasks, id)}
    /\ taskTags' = taskTags \ TaskTagsCascade({ById(tasks, id)})
    /\ last' = Outcome("Task.destroy", NoRequest, id, Ok, NoErrors)
    /\ UNCHANGED <<users, projects, tags, nextId, now>>

\* task.addTags(tag): a row of the join table TaskTags
TaskAddTags(taskId, tagId) ==
    /\ taskId \in Ids(tasks)
    /\ tagId \in Ids(tags)
    /\ taskTags' = taskTags \cup {[taskId |-> taskId, tagId |-> tagId]}
    /\ last' = Outcome("Task.addTags", NoRequest, taskId, Ok, NoErrors)
    /\ UNCHANGED <<users, projects, tasks, tags, nextId, now>>

TagCreate(req) ==
    /\ LET data == NewTag(req)
           errors == TagValidate(data, TagFields)
           id == nextId.Tag
       IN  IF errors # NoErrors
           THEN /\ last' = Outcome("Tag.create", req, NullNum, ValidationError, errors)
                /\ UNCHANGED <<tags, nextId>>
           ELSE IF ~TagUnique(data, NullNum)
           THEN /\ last' = Outcome("Tag.create", req, NullNum, Conflict, NoErrors)
                /\ UNCHANGED <<tags, nextId>>
           ELSE /\ tags' = tags \cup {TagRow(data, id)}
                /\ nextId' = Bump("Tag")
                /\ last' = Outcome("Tag.create", req, id, Ok, NoErrors)
    /\ UNCHANGED <<users, projects, tasks, taskTags, now>>

TagUpdate(id, req) ==
    /\ id \in Ids(tags)
    /\ LET t == ById(tags, id)
           data == TagSet(TagData(t), req)
           errors == TagValidate(data, DOMAIN req)
       IN  IF errors # NoErrors
           THEN /\ last' = Outcome("Tag.update", req, id, ValidationError, errors)
                /\ UNCHANGED tags
           ELSE IF ~TagUnique(data, id)
           THEN /\ last' = Outcome("Tag.update", req, id, Conflict, NoErrors)
                /\ UNCHANGED tags
           ELSE /\ tags' = (tags \ {t}) \cup {TagRow(data, id)}
                /\ last' = Outcome("Tag.update", req, id, Ok, NoErrors)
    /\ UNCHANGED <<users, projects, tasks, taskTags, nextId, now>>

TagDestroy(id) ==
    /\ id \in Ids(tags)
    /\ tags' = tags \ {ById(tags, id)}
    /\ taskTags' = taskTags \ TagTasksCascade(id)
    /\ last' = Outcome("Tag.destroy", NoRequest, id, Ok, NoErrors)
    /\ UNCHANGED <<users, projects, tasks, nextId, now>>

\* the clock
Tick ==
    /\ now' = now + 1
    /\ UNCHANGED <<users, projects, tasks, tags, taskTags, nextId, last>>

(***************************************************************************)
(* Numbers to strings.  (finishedCount / length) * 100 is an IEEE double;  *)
(* its decimal form is the quotient's expansion cut at SignificantDigits   *)
(* digits, which is what the double prints as for every count up to 5      *)
(* (33.33333333333333, 66.66666666666666); the bounds keep the counts      *)
(* below that.                                                             *)
(***************************************************************************)
DigitSeq == <<"0","1","2","3","4","5","6","7","8","9">>

SignificantDigits == 16

RECURSIVE IntToString(_)
IntToString(n) ==
    IF n < 10 THEN DigitSeq[n + 1]
    ELSE IntToString(n \div 10) \o DigitSeq[(n % 10) + 1]

\* the decimal digits of r / d that follow the `sig` significant digits
\* already written
RECURSIVE DecimalDigits(_, _, _)
DecimalDigits(r, d, sig) ==
    IF r = 0 \/ sig >= SignificantDigits THEN <<>>
    ELSE LET digit == (r * 10) \div d
         IN  <<digit>> \o DecimalDigits((r * 10) % d, d,
                                        IF sig = 0 /\ digit = 0 THEN 0 ELSE sig + 1)

\* trailing zeros are not written
RECURSIVE StripZeros(_)
StripZeros(ds) ==
    IF ds = <<>> \/ ds[Len(ds)] # 0 THEN ds
    ELSE StripZeros(SubSeq(ds, 1, Len(ds) - 1))

RECURSIVE DigitsToString(_)
DigitsToString(ds) ==
    IF ds = <<>> THEN ""
    ELSE DigitSeq[Head(ds) + 1] \o DigitsToString(Tail(ds))

\* String(n / d) for n, d >= 0, d > 0
NumberToString(n, d) ==
    LET whole == IntToString(n \div d)
        decimals == StripZeros(DecimalDigits(n % d, d,
                                             IF n \div d = 0 THEN 0 ELSE Len(whole)))
    IN  IF decimals = <<>> THEN whole
        ELSE whole \o "." \o DigitsToString(decimals)

(***************************************************************************)
(* Instance methods.                                                       *)
(***************************************************************************)
\* a findAll without its where clause
FindTasksAll(id) == tasks

\* a findAll on the other foreign key
FindTasksByProjectOnUserId(id) == { t \in tasks : t.userId = id }

\* Task.findAll({where: {userId: id}})
FindTasksByUser(id) == { t \in tasks : t.userId = id }

\* Task.findAll({where: {projectId: id}})
FindTasksByProject(id) == { t \in tasks : t.projectId = id }

\* a findAll that leaves status out of its where clause
FindProjectsByUser(id) == { p \in projects : p.userId = id }

\* Project.findAll({where: {userId: id, status: 'active'}})
FindActiveProjects(id) == { p \in projects : p.userId = id /\ p.status = "active" }

\* User.getFullName
getFullName(user) == user.firstName \o <<" ">> \o user.lastName

\* User.getTaskCompletionRate, once allTasks is fetched
TaskCompletionRate(allTasks) ==
    IF Cardinality(allTasks) = 0 THEN "0%"
    ELSE NumberToString(
             Cardinality({ t \in allTasks : t.status = "completed" }) * 100,
             Cardinality(allTasks)) \o "%"

\* User.getTaskCompletionRate
getTaskCompletionRate(user) == TaskCompletionRate(FindTasksByUser(user.id))

\* User.getActiveProjectsCount
getActiveProjectsCount(user) == Cardinality(FindActiveProjects(user.id))

\* Project.getProgress, once allTasks is fetched
ProjectProgress(allTasks) ==
    IF Cardinality(allTasks) = 0 THEN "0%"
    ELSE NumberToString(
             Cardinality({ t \in allTasks : t.status = "completed" }) * 100,
             Cardinality(allTasks)) \o "%"

\* Project.getProgress
getProjectProgress(project) == ProjectProgress(FindTasksByProject(project.id))

\* an isOverdue that does not look at the status
isOverdueWhateverStatus(task) == now > task.dueDate

\* Task.isOverdue
isOverdue(task) ==
    IF task.status = "completed" THEN FALSE
    ELSE now > task.dueDate

\* a getProgress that knows completed tasks only
getProgressCompletedOnly(task) ==
    IF task.status = "completed" THEN "100%" ELSE "0%"

\* Task.getProgress
getProgress(task) ==
    CASE task.status = "completed" -> "100%"
      [] task.status = "in_progress" -> "50%"
      [] task.status = "cancelled" -> "0%"
      [] OTHER -> "0%"

\* the calls, as operations whose result the caller sees
GetFullName(id) ==
    /\ id \in Ids(users)
    /\ last' = Returned("User.getFullName", id, getFullName(ById(users, id)))
    /\ UNCHANGED <<users, projects, tasks, tags, taskTags, nextId, now>>

GetTaskCompletionRate(id) ==
    /\ id \in Ids(users)
    /\ last' = Returned("User.getTaskCompletionRate", id,
                        getTaskCompletionRate(ById(users, id)))
    /\ UNCHANGED <<users, projects, tasks, tags, taskTags, nextId, now>>

GetActiveProjectsCount(id) ==
    /\ id \in Ids(users)
    /\ last' = Returned("User.getActiveProjectsCount", id,
                        getActiveProjectsCount(ById(users, id)))
    /\ UNCHANGED <<users, projects, tasks, tags, taskTags, nextId, now>>

GetProjectProgress(id) ==
    /\ id \in Ids(projects)
    /\ last' = Returned("Project.getProgress", id,
                        getProjectProgress(ById(projects, id)))
    /\ UNCHANGED <<users, projects, tasks, tags, taskTags, nextId, now>>

IsOverdue(id) ==
    /\ id \in Ids(tasks)
    /\ last' = Returned("Task.isOverdue", id, isOverdue(ById(tasks, id)))
    /\ UNCHANGED <<users, projects, tasks, tags, taskTags, nextId, now>>

GetProgress(id) ==
    /\ id \in Ids(tasks)
    /\ last' = Returned("Task.getProgress", id, getProgress(ById(tasks, id)))
    /\ UNCHANGED <<users, projects, tasks, tags, taskTags, nextId, now>>

(***************************************************************************)
(* Requests.                                                               *)
(***************************************************************************)
Alice == <<"a","l","i","c","e">>

Bob == <<"b","o","b">>

\* "Al@x.io"
AliceMail == <<"A","l","@","x",".","i","o">>

\* "bo@x.io"
BobMail == <<"b","o","@","x",".","i","o">>

\* "BO@X.IO"
BobMailUpper == <<"B","O","@","X",".","I","O">>

\* "bob.com"
NoAtMail == <<"b","o","b",".","c","o","m">>

\* "Passw0rd!"
GoodPassword == <<"P","a","s","s","w","0","r","d","!">>

FirstName == <<"A","l">>

LastName == <<"L","e","e">>

\* "R2"
DigitName == <<"R","2">>

UserReq(username, email) ==
    [username |-> username, email |-> email, password |-> GoodPassword,
     firstName |-> FirstName, lastName |-> LastName]

UserA == UserReq(Alice, AliceMail)

UserB == UserReq(Bob, BobMail)

\* "Site"
ProjectName == <<"S","i","t","e">>

\* "Docs"
TaskTitle == <<"D","o","c","s">>

\* "Do"
ShortTitle == <<"D","o">>

\* "ui"
TagName == <<"u","i">>

\* "db"
OtherTagName == <<"d","b">>

\* "#FA0"
ShortColor == <<"#","F","A","0">>

\* "#00"
BadColor == <<"#","0","0">>

(***************************************************************************)
(* The store starts empty, the clock at 0.                                 *)
(***************************************************************************)
Init ==
    /\ users = {}
    /\ projects = {}
    /\ tasks = {}
    /\ tags = {}
    /\ taskTags = {}
    /\ nextId = [User |-> 1, Project |-> 1, Task |-> 1, Tag |-> 1]
    /\ now = 0
    /\ last = Returned("sync", NullNum, NullNum)

(***************************************************************************)
(* Deleting: two users, the projects of the first, tasks of either user in *)
(* either project, a tag on the tasks.                                     *)
(***************************************************************************)
CascadeProject == [name |-> ProjectName, endDate |-> 1, userId |-> 1]

CascadeTasks ==
    { [title |-> TaskTitle, dueDate |-> 1, userId |-> x[1], projectId |-> x[2]] :
        x \in {<<1, 1>>, <<2, 1>>, <<2, 2>>} }

NextCascade ==
    \/ \E req \in {UserA, UserB} : Room("User", MaxUsers) /\ UserCreate(req)
    \/ Room("Project", MaxProjects) /\ ProjectCreate(CascadeProject)
    \/ \E req \in CascadeTasks : Room("Task", MaxTasks) /\ TaskCreate(req)
    \/ Room("Tag", MaxTags) /\ TagCreate([name |-> TagName])
    \/ \E t \in {1, 2} : TaskAddTags(t, 1)
    \/ \E id \in Ids(users) : UserDestroy(id)
    \/ \E id \in Ids(projects) : ProjectDestroy(id)
    \/ \E id \in Ids(tasks) : TaskDestroy(id)
    \/ \E id \in Ids(tags) : TagDestroy(id)

SpecCascade == Init /\ [][NextCascade]_vars

\* a write of table `op` that ended well and changed `last`
Done(op) == last' # last /\ last'.op = op /\ last'.kind = Ok

\* C1: deleting a User deletes every Task whose userId is that user and
\* deleting a Project deletes every Task whose projectId is that project,
\* so that afterwards no stored Task refers to the deleted row; the other
\* tasks stay, and neither deletion, nor deleting a Task, deletes a Tag.
C1_CascadeDelete ==
    [][ /\ Done("User.destroy") =>
              /\ \A t \in tasks' : t.userId # last'.id
              /\ tasks' = { t \in tasks : t.userId # last'.id }
              /\ tags' = tags
        /\ Done("Project.destroy") =>
              /\ \A t \in tasks' : t.projectId # last'.id
              /\ tasks' = { t \in tasks : t.projectId # last'.id }
              /\ tags' = tags
        /\ Done("Task.destroy") => tags' = tags
      ]_vars

\* a user was deleted whose tasks carried the tag: the other user's task and
\* the tag are still stored
C1_Witness ==
    /\ last.op = "User.destroy" /\ last.kind = Ok /\ last.id = 2
    /\ nextId.Task = 3
    /\ Cardinality(tasks) = 1
    /\ \A t \in tasks : t.userId = 1
    /\ Cardinality(tags) = 1
    /\ nextId.Tag = 2

(***************************************************************************)
(* Writing: for each table one request that is valid and one that has a    *)
(* valid and an invalid field, on create and on update.                    *)
(***************************************************************************)
WriteUserCreates == {UserA, UserReq(Bob, NoAtMail)}

WriteUserUpdates == {[firstName |-> LastName], [username |-> Bob, firstName |-> DigitName]}

WriteProjectCreates ==
    {[name |-> ProjectName, endDate |-> 1, userId |-> 1],
     [name |-> ProjectName, endDate |-> 0, userId |-> 1]}

WriteProjectUpdates ==
    {[status |-> "completed"], [name |-> TaskTitle, status |-> "archived"]}

WriteTaskCreates ==
    {[title |-> TaskTitle, dueDate |-> 1, userId |-> 1, projectId |-> 1],
     [title |-> ShortTitle, dueDate |-> 1, userId |-> 1, projectId |-> 1]}

WriteTaskUpdates ==
    {[status |-> "completed"], [status |-> "in_progress", priority |-> "urgent"]}

WriteTagCreates == {[name |-> TagName], [name |-> OtherTagName, color |-> BadColor]}

WriteTagUpdates ==
    {[color |-> ShortColor], [name |-> OtherTagName, color |-> BadColor]}

NextWrite ==
    \/ \E req \in WriteUserCreates : Room("User", MaxUsers) /\ UserCreate(req)
    \/ \E req \in WriteUserUpdates : UserUpdate(1, req)
    \/ \E req \in WriteProjectCreates : Room("Project", MaxProjects) /\ ProjectCreate(req)
    \/ \E req \in WriteProjectUpdates : \E id \in {1, 2} : ProjectUpdate(id, req)
    \/ \E req \in WriteTaskCreates : Room("Task", MaxTasks) /\ TaskCreate(req)
    \/ \E req \in WriteTaskUpdates : \E id \in {1, 2} : TaskUpdate(id, req)
    \/ \E req \in WriteTagCreates : Room("Tag", MaxTags) /\ TagCreate(req)
    \/ \E req \in WriteTagUpdates : TagUpdate(1, req)

SpecWrite == Init /\ [][NextWrite]_vars

\* some attribute of the request, as validated on create (all attributes of
\* the built instance) or on update (the attributes of the request, on the
\* stored row with the request set), fails one of its rules
RequestInvalid(op, req, id) ==
    CASE op = "User.create" ->
            \E f \in UserFields : UserFieldMessages(UserSet(NewUser, req), f) # {}
      [] op = "User.update" ->
            \E f \in DOMAIN req :
                UserFieldMessages(UserSet(UserData(ById(users, id)), req), f) # {}
      [] op = "Project.create" ->
            \E f \in ProjectFields : ProjectFieldMessages(NewProject(req), f) # {}
      [] op = "Project.update" ->
            \E f \in DOMAIN req :
                ProjectFieldMessages(ProjectSet(ProjectData(ById(projects, id)), req), f) # {}
      [] op = "Task.create" ->
            \E f \in TaskFields : TaskFieldMessages(NewTask(req), f) # {}
      [] op = "Task.update" ->
            \E f \in DOMAIN req :
                TaskFieldMessages(TaskSet(TaskData(ById(tasks, id)), req), f) # {}
      [] op = "Tag.create" ->
            \E f \in TagFields : TagFieldMessages(NewTag(req), f) # {}
      [] op = "Tag.update" ->
            \E f \in DOMAIN req :
                TagFieldMessages(TagSet(TagData(ById(tags, id)), req), f) # {}
      [] OTHER -> FALSE

\* C2: a create or update request with a field that fails validation is
\* rejected as a whole: no row is added and no field of a stored row is
\* changed, the valid fields of the request included.
C2_InvalidRequestWritesNothing ==
    [][ (last' # last /\ RequestInvalid(last'.op, last'.req, last'.id)) =>
            /\ last'.kind = ValidationError
            /\ last'.errors # NoErrors
            /\ store' = store
            /\ nextId' = nextId
      ]_vars

\* an update that gave a valid username and an invalid firstName was
\* rejected, and the stored user has the username it had
C2_Witness ==
    /\ last.op = "User.update" /\ last.kind = ValidationError
    /\ last.req.username = Bob
    /\ \E u \in users : u.id = last.id /\ u.username = Alice
    /\ projects # {} /\ tasks # {} /\ tags # {}

(***************************************************************************)
(* Accounts and tags: requests that share a username, an email (in another *)
(* letter case) or a tag name with a stored row.                           *)
(***************************************************************************)
AccountUserCreates == {UserA, UserB, UserReq(Alice, BobMailUpper)}

AccountUserUpdates == {[username |-> Bob], [email |-> BobMailUpper], [email |-> BobMail]}

AccountTagCreates == {[name |-> TagName], [name |-> OtherTagName, color |-> ShortColor]}

AccountTagUpdates == {[name |-> OtherTagName]}

NextAccount ==
    \/ \E req \in AccountUserCreates : Room("User", MaxUsers) /\ UserCreate(req)
    \/ \E req \in AccountUserUpdates : \E id \in Ids(users) : UserUpdate(id, req)
    \/ \E id \in Ids(users) : UserDestroy(id)
    \/ \E req \in AccountTagCreates : Room("Tag", MaxTags) /\ TagCreate(req)
    \/ \E req \in AccountTagUpdates : \E id \in Ids(tags) : TagUpdate(id, req)
    \/ \E id \in Ids(tags) : TagDestroy(id)

SpecAccount == Init /\ [][NextAccount]_vars

\* s and t are the same string but for the case of the letters
SameButCase(s, t) ==
    /\ Len(s) = Len(t)
    /\ \A i \in 1..Len(s) :
          \/ s[i] = t[i]
          \/ \E k \in 1..26 : {s[i], t[i]} = {UpperSeq[k], LowerSeq[k]}

NoUpper(s) == \A i \in 1..Len(s) : s[i] \notin Upper

UniqueRows ==
    /\ \A u1, u2 \in users :
          u1.id # u2.id => u1.username # u2.username /\ u1.email # u2.email
    /\ \A t1, t2 \in tags : t1.id # t2.id => t1.name # t2.name

\* the row the request would write has the username or the email (as
\* stored) of another user, or the name of another tag
Duplicates(op, req, id) ==
    CASE op \in {"User.create", "User.update"} ->
            \E u \in users :
                /\ u.id # id
                /\ \/ Has(req, "username") /\ u.username = req.username
                   \/ Has(req, "email") /\ SameButCase(req.email, u.email)
                                        /\ NoUpper(u.email)
      [] op \in {"Tag.create", "Tag.update"} ->
            \E t \in tags : t.id # id /\ Has(req, "name") /\ t.name = req.name
      [] OTHER -> FALSE

\* C3: no two stored Users have the same username or the same email and no
\* two stored Tags have the same name; a valid create or update that would
\* make such a duplicate is rejected with the Conflict error, which is not
\* the validation error, and writes nothing.
C3_Unique ==
    /\ []UniqueRows
    /\ [][ (last' # last /\ last'.op \in {"User.create", "User.update",
                                          "Tag.create", "Tag.update"}
              /\ ~RequestInvalid(last'.op, last'.req, last'.id)
              /\ Duplicates(last'.op, last'.req,
                            IF last'.op \in {"User.create", "Tag.create"}
                            THEN NullNum ELSE last'.id)) =>
                /\ last'.kind = Conflict
                /\ last'.kind # ValidationError
                /\ last'.errors = NoErrors
                /\ store' = store
         ]_vars

\* two users and two tags are stored, and the last request, for an email
\* that another user has, ended in the Conflict error
C3_Witness ==
    /\ Cardinality(users) = 2
    /\ Cardinality(tags) = 2
    /\ last.op = "User.update" /\ last.kind = Conflict
    /\ Has(last.req, "email")

\* C8: the email of every stored User is lower-cased: the email a create
\* or update wrote is stored as the lower-cased value of the request, and
\* so as given when the request's value has no upper-case letter.
C8_EmailLowerCased ==
    /\ \A u \in users : NoUpper(u.email)
    /\ (last.op \in {"User.create", "User.update"} /\ last.kind = Ok
          /\ Has(last.req, "email") /\ last.req.email # NullStr) =>
            \A u \in users : u.id = last.id =>
                /\ SameButCase(last.req.email, u.email)
                /\ NoUpper(last.req.email) => u.email = last.req.email

\* a create and an update each stored an email given with upper-case
\* letters
C8_Witness ==
    /\ last.op = "User.update" /\ last.kind = Ok
    /\ Has(last.req, "email") /\ ~NoUpper(last.req.email)
    /\ \E u \in users : u.id = last.id /\ u.email = BobMail
    /\ \E u \in users : u.id # last.id /\ u.email # AliceMail
                            /\ SameButCase(u.email, AliceMail)

(***************************************************************************)
(* Task counts: two users, two projects, tasks of either user in the other *)
(* user's numbered project, created pending or completed, completed and    *)
(* deleted later.                                                          *)
(***************************************************************************)
CountedTasks ==
    { [title |-> TaskTitle, dueDate |-> 1, userId |-> x[1], projectId |-> x[2]] :
        x \in {<<1, 2>>, <<2, 1>>} }
    \cup
    { [title |-> TaskTitle, dueDate |-> 1, userId |-> x[1], projectId |-> x[2],
       status |-> "completed"] : x \in {<<1, 2>>, <<2, 1>>} }

NextMetrics ==
    \/ \E req \in {UserA, UserB} : Room("User", MaxUsers) /\ UserCreate(req)
    \/ Room("Project", MaxProjects) /\ ProjectCreate(CascadeProject)
    \/ \E req \in CountedTasks : Room("Task", MaxCounted) /\ TaskCreate(req)
    \/ \E id \in Ids(tasks) : TaskUpdate(id, [status |-> "completed"])
    \/ \E id \in Ids(tasks) : TaskDestroy(id)
    \/ \E id \in Ids(users) : GetTaskCompletionRate(id)
    \/ \E id \in Ids(projects) : GetProjectProgress(id)

SpecMetrics == Init /\ [][NextMetrics]_vars

\* what `rate` must be for `done` completed tasks among `all`
RateOf(all, done, rate) ==
    /\ all = 0 => rate = "0%"
    /\ (all > 0 /\ done = 0) => rate = "0%"
    /\ (all > 0 /\ done = all) => rate = "100%"
    /\ (all > 0 /\ 2 * done = all) => rate = "50%"
    /\ (all > 0 /\ 4 * done = all) => rate = "25%"
    /\ (all > 0 /\ 4 * done = 3 * all) => rate = "75%"
    /\ (all > 0 /\ 3 * done = all) => rate = "33.33333333333333%"
    /\ (all > 0 /\ 3 * done = 2 * all) => rate = "66.66666666666666%"

OwnTasks(u) == { t \in tasks : t.userId = u.id }

Completed(ts) == { t \in ts : t.status = "completed" }

\* C4: User.getTaskCompletionRate is "0%" for a user with no tasks and
\* otherwise completed / total * 100 followed by "%", over exactly the
\* stored tasks whose userId is the user's id (1 of 2 gives "50%", all
\* "100%", none "0%"); a step that leaves the user's own tasks as they were
\* leaves the result as it was.
C4_TaskCompletionRate ==
    /\ [](\A u \in users :
            RateOf(Cardinality(OwnTasks(u)), Cardinality(Completed(OwnTasks(u))),
                   getTaskCompletionRate(u)))
    /\ [](last.op = "User.getTaskCompletionRate" =>
            \A u \in users : u.id = last.id =>
                RateOf(Cardinality(OwnTasks(u)), Cardinality(Completed(OwnTasks(u))),
                       last.ret))
    /\ [][ \A u \in users : (u \in users' /\ OwnTasks(u)' = OwnTasks(u)) =>
                TaskCompletionRate(FindTasksByUser(u.id)') = getTaskCompletionRate(u)
      ]_vars

\* the rate of a user with one task completed of two was read as "50%"
\* while the other user has a task
C4_Witness ==
    /\ last.op = "User.getTaskCompletionRate" /\ last.ret = "50%"
    /\ \E u \in users : u.id = last.id /\ Cardinality(OwnTasks(u)) = 2
    /\ \E u \in users : u.id # last.id /\ OwnTasks(u) # {}

InProject(p) == { t \in tasks : t.projectId = p.id }

\* C5: Project.getProgress is the same computation over exactly the tasks
\* whose projectId is the project's id: "0%" for a project with no tasks,
\* the user's rate where the user's tasks are the project's, and unchanged
\* by a step (a task of another project created, completed or deleted) that
\* leaves the project's own tasks as they were.
C5_ProjectProgress ==
    /\ [](\A p \in projects :
            /\ RateOf(Cardinality(InProject(p)), Cardinality(Completed(InProject(p))),
                      getProjectProgress(p))
            /\ \A u \in users : OwnTasks(u) = InProject(p) =>
                   getProjectProgress(p) = getTaskCompletionRate(u))
    /\ [](last.op = "Project.getProgress" =>
            \A p \in projects : p.id = last.id =>
                RateOf(Cardinality(InProject(p)), Cardinality(Completed(InProject(p))),
                       last.ret))
    /\ [][ \A p \in projects : (p \in projects' /\ InProject(p)' = InProject(p)) =>
                ProjectProgress(FindTasksByProject(p.id)') = getProjectProgress(p)
      ]_vars

\* the progress of a project with one task completed of two was read as
\* "50%" while the other project has a task
C5_Witness ==
    /\ last.op = "Project.getProgress" /\ last.ret = "50%"
    /\ \E p \in projects : p.id = last.id /\ Cardinality(InProject(p)) = 2
    /\ \E p \in projects : p.id # last.id /\ InProject(p) # {}

(***************************************************************************)
(* Project counts: two users, projects of either, created active or        *)
(* completed, put on hold, cancelled and deleted later.                    *)
(***************************************************************************)
OwnedProjects ==
    { [name |-> ProjectName, endDate |-> 1, userId |-> u] : u \in {1, 2} }
    \cup
    { [name |-> ProjectName, endDate |-> 1, userId |-> u, status |-> "completed"] :
        u \in {1, 2} }

NextActive ==
    \/ \E req \in {UserA, UserB} : Room("User", MaxUsers) /\ UserCreate(req)
    \/ \E req \in OwnedProjects : Room("Project", MaxOwned) /\ ProjectCreate(req)
    \/ \E id \in Ids(projects) : \E st \in {"on_hold", "cancelled"} :
            ProjectUpdate(id, [status |-> st])
    \/ \E id \in Ids(projects) : ProjectDestroy(id)
    \/ \E id \in Ids(users) : GetActiveProjectsCount(id)

SpecActive == Init /\ [][NextActive]_vars

OwnProjects(u) == { p \in projects : p.userId = u.id }

\* `count` is the number of the user's projects less those that are
\* completed, on hold or cancelled
ActiveCountOf(u, count) ==
    /\ count = Cardinality(OwnProjects(u))
                 - Cardinality({ p \in OwnProjects(u) :
                                   p.status \in {"completed", "on_hold", "cancelled"} })
    /\ OwnProjects(u) = {} => count = 0

\* C6: User.getActiveProjectsCount is the number of stored projects whose
\* userId is the user's id and whose status is "active": 0 for a user with
\* no projects, and no completed, on_hold or cancelled project and no
\* project of another user is counted.
C6_ActiveProjectsCount ==
    /\ \A u \in users : ActiveCountOf(u, getActiveProjectsCount(u))
    /\ last.op = "User.getActiveProjectsCount" =>
          \A u \in users : u.id = last.id => ActiveCountOf(u, last.ret)

\* 1 was read for a user with an active and another project while the
\* other user has an active project
C6_Witness ==
    /\ last.op = "User.getActiveProjectsCount" /\ last.ret = 1
    /\ \E u \in users : u.id = last.id /\ Cardinality(OwnProjects(u)) = 2
    /\ \E p \in projects : p.userId # last.id /\ p.status = "active"

(***************************************************************************)
(* Project dates: projects created as the clock runs, with startDate given *)
(* or omitted and endDate before, at and after it; either date written     *)
(* later.                                                                  *)
(***************************************************************************)
DatedProjects ==
    { [name |-> ProjectName, startDate |-> 1, endDate |-> e, userId |-> 1] :
        e \in {0, 1, 2} }
    \cup
    { [name |-> ProjectName, endDate |-> e, userId |-> 1] : e \in {1, 2} }

DatedProjectUpdates == { [endDate |-> 1], [startDate |-> 2] }

NextDates ==
    \/ Room("User", MaxUsers) /\ UserCreate(UserA)
    \/ \E req \in DatedProjects : Room("Project", MaxProjects) /\ ProjectCreate(req)
    \/ \E req \in DatedProjectUpdates : \E id \in Ids(projects) : ProjectUpdate(id, req)
    \/ now < MaxTime /\ Tick

SpecDates == Init /\ [][NextDates]_vars

EndDateMessage == <<"endDate", "End date must be after start date">>

\* C9: creating a Project is rejected when endDate is earlier than or equal
\* to startDate and is not rejected for its endDate when endDate is strictly
\* later; with startDate omitted the comparison is against the time of the
\* creation.
C9_EndDateAfterStartDate ==
    last.op = "Project.create" =>
        LET startDate == IF Has(last.req, "startDate") THEN last.req.startDate
                         ELSE last.at
        IN  /\ last.req.endDate <= startDate =>
                  /\ last.kind = ValidationError
                  /\ EndDateMessage \in last.errors
                  /\ last.id = NullNum
            /\ last.req.endDate > startDate =>
                  /\ EndDateMessage \notin last.errors
                  /\ last.kind # ValidationError

\* a project with no startDate and the current time, later than 0, as its
\* endDate was rejected, after one with a later endDate was stored
C9_Witness ==
    /\ last.op = "Project.create" /\ last.kind = ValidationError
    /\ ~Has(last.req, "startDate")
    /\ last.req.endDate = last.at /\ last.at > 0
    /\ \E p \in projects : p.startDate = 0 /\ p.endDate = 1

(***************************************************************************)
(* Due dates: tasks of one user and one project, created as the clock     *)
(* runs, due at 1 or 2; status and dueDate written later; isOverdue and    *)
(* getProgress read.                                                       *)
(***************************************************************************)
DatedProject == [name |-> ProjectName, startDate |-> 0, endDate |-> 1, userId |-> 1]

DueTasks ==
    { [title |-> TaskTitle, dueDate |-> d, userId |-> 1, projectId |-> 1] : d \in {1, 2} }

DueTaskUpdates ==
    { [status |-> st] : st \in {"in_progress", "completed", "cancelled"} }
    \cup {[dueDate |-> 2]}

NextDue ==
    \/ users = {} /\ UserCreate(UserA)
    \/ projects = {} /\ ProjectCreate(DatedProject)
    \/ \E req \in DueTasks : Room("Task", MaxTasks) /\ TaskCreate(req)
    \/ \E req \in DueTaskUpdates : \E id \in Ids(tasks) : TaskUpdate(id, req)
    \/ \E id \in Ids(tasks) : IsOverdue(id)
    \/ \E id \in Ids(tasks) : GetProgress(id)
    \/ now < MaxTime /\ Tick

SpecDue == Init /\ [][NextDue]_vars

\* what isOverdue must answer at time `at`
OverdueOf(t, at, ret) ==
    /\ t.status = "completed" => ret = FALSE
    /\ t.status \in {"pending", "in_progress", "cancelled"} => (ret <=> at > t.dueDate)
    /\ at = t.dueDate => ret = FALSE

\* C7: Task.isOverdue is false for a completed task whatever its dueDate;
\* for pending, in_progress and cancelled it is true exactly when the
\* current time is strictly greater than dueDate, so false at dueDate.
C7_IsOverdue ==
    /\ \A t \in tasks : OverdueOf(t, now, isOverdue(t))
    /\ last.op = "Task.isOverdue" =>
          \A t \in tasks : t.id = last.id => OverdueOf(t, last.at, last.ret)

\* false was read for a completed task whose dueDate had passed, while
\* another task, cancelled, is overdue
C7_Witness ==
    /\ last.op = "Task.isOverdue" /\ last.ret = FALSE
    /\ \E t \in tasks : t.id = last.id /\ t.status = "completed"
                          /\ last.at > t.dueDate
    /\ \E t \in tasks : t.status = "cancelled" /\ isOverdue(t)

DueDateMessage == <<"dueDate", "Due date must be in the future">>

\* At creation a dueDate earlier than or equal to the current time is
\* rejected and a later one is not; the passing of time changes no stored
\* task, and a task whose dueDate has passed is still read and still
\* updated in its other fields.
DueDateAtCreation ==
    /\ last.op = "Task.create" =>
          /\ last.req.dueDate <= last.at =>
                /\ last.kind = ValidationError
                /\ DueDateMessage \in last.errors
          /\ last.req.dueDate > last.at =>
                /\ DueDateMessage \notin last.errors
                /\ last.kind # ValidationError
    /\ (last.op = "Task.update" /\ ~Has(last.req, "dueDate")) => last.kind = Ok
    /\ last.op = "Task.isOverdue" => last.ret \in BOOLEAN
    /\ \A t \in tasks : isOverdue(t) \in BOOLEAN /\ getProgress(t) \in {"0%", "50%", "100%"}

\* C10 as stated: dueDate is checked at creation only, so that no update
\* is rejected for its dueDate.
C10_Original ==
    /\ DueDateAtCreation
    /\ last.op = "Task.update" => DueDateMessage \notin last.errors

\* C10 as amended: dueDate is checked when it is written, at creation and
\* by an update that gives dueDate (rejected when the value is earlier than
\* or equal to the current time), and at no other time: the passing of time
\* changes no stored task, and a task whose dueDate has passed is read and
\* updated in its other fields as before.
C10_DueDateCheckedWhenWritten ==
    /\ []DueDateAtCreation
    /\ [](last.op = "Task.update" =>
            /\ (Has(last.req, "dueDate") /\ last.req.dueDate <= last.at) =>
                  last.kind = ValidationError /\ DueDateMessage \in last.errors
            /\ (Has(last.req, "dueDate") /\ last.req.dueDate > last.at) =>
                  last.kind = Ok)
    /\ [][now' # now => tasks' = tasks]_vars

\* an update that gives the current time as dueDate was rejected, for
\* a task stored before, whose dueDate has passed and which is still stored
C10_Witness ==
    /\ last.op = "Task.update" /\ last.kind = ValidationError
    /\ Has(last.req, "dueDate") /\ last.req.dueDate = last.at
    /\ \E t \in tasks : t.id = last.id /\ t.dueDate < last.at

(***************************************************************************)
(* Enums: projects and a task whose status and priority are given, on      *)
(* create and on update, as each literal of the enum, as a string that is  *)
(* none of them, and as null.                                              *)
(***************************************************************************)
\* "archived", "done" and "urgent" are literals of no enum
EnumProjectStatus == ProjectStatus \cup {"archived", NullEnum}

EnumTaskStatus == TaskStatus \cup {"done", NullEnum}

EnumTaskPriority == TaskPriority \cup {"urgent", NullEnum}

EnumProjectCreates ==
    {CascadeProject}
    \cup { [name |-> ProjectName, status |-> st, endDate |-> 1, userId |-> 1] :
             st \in EnumProjectStatus }

EnumProjectUpdates == { [status |-> st] : st \in EnumProjectStatus }

EnumTask == [title |-> TaskTitle, dueDate |-> 1, userId |-> 1, projectId |-> 1]

EnumTaskCreates ==
    {EnumTask}
    \cup { [title |-> TaskTitle, status |-> st, dueDate |-> 1, userId |-> 1,
            projectId |-> 1] : st \in EnumTaskStatus }
    \cup { [title |-> TaskTitle, dueDate |-> 1, priority |-> pr, userId |-> 1,
            projectId |-> 1] : pr \in EnumTaskPriority }

EnumTaskUpdates ==
    { [status |-> st] : st \in EnumTaskStatus }
    \cup { [priority |-> pr] : pr \in EnumTaskPriority }

NextEnum ==
    \/ users = {} /\ UserCreate(UserA)
    \/ \E req \in EnumProjectCreates : Room("Project", MaxProjects) /\ ProjectCreate(req)
    \/ \E req \in EnumProjectUpdates : \E id \in Ids(projects) : ProjectUpdate(id, req)
    \/ \E req \in EnumTaskCreates : tasks = {} /\ TaskCreate(req)
    \/ \E req \in EnumTaskUpdates : \E id \in Ids(tasks) : TaskUpdate(id, req)

SpecEnum == Init /\ [][NextEnum]_vars

\* the request gives enum field f a value outside `values`, and was
\* rejected for it, or gives a value of `values` (or none), and has no error
\* for it
EnumChecked(f, values) ==
    /\ (Has(last.req, f) /\ last.req[f] \notin values) =>
          /\ last.kind = ValidationError
          /\ \E e \in last.errors : e[1] = f
    /\ (Has(last.req, f) => last.req[f] \in values) =>
          \A e \in last.errors : e[1] # f

RECURSIVE repeat(_, _)
repeat(value, count) ==
    IF count = 0 THEN <<>> ELSE value \o repeat(value, count - 1)

\* "aa", "abc", 30 and 31 letters; "_ab", "a!c", "abc?"; "ab", line feed, "!"
Usernames ==
    {Alice, Bob, repeat(<<"a">>, 2), <<"a","b","c">>, repeat(<<"a">>, 30),
     repeat(<<"a">>, 31), <<"_","a","b">>, <<"a","!","c">>, <<"a","b","c","?">>,
     <<"a","b","\n","!">>}

\* "bob.com", "bob@com", "@x.io", "bo@x.i", "bo@x.io!!", "a@b@x.io"
Emails ==
    {AliceMail, BobMail, NoAtMail, <<"b","o","b","@","c","o","m">>,
     <<"@","x",".","i","o">>, <<"b","o","@","x",".","i">>,
     BobMail \o <<"!","!">>, <<"a","@">> \o BobMail}

\* "assw", "rd": what the passwords below share
Assw == <<"a","s","s","w">>

\* "12A!5"; 7, 8, 100 and 101 characters with the three classes; "Passw0rd!"
\* without its upper-case letter, its digit, its special character, two of
\* them, all of them; "Passw0rd!" and "Passwordd" after a line feed
Passwords ==
    {GoodPassword, <<"1","2","A","!","5">>,
     <<"A","1","!">> \o Assw, <<"A","1","!","a">> \o Assw,
     repeat(<<"A","1","!">>, 33) \o <<"a">>, repeat(<<"A","1","!">>, 33) \o <<"a","b">>,
     <<"p">> \o Assw \o <<"0","r","d","!">>, <<"P">> \o Assw \o <<"o","r","d","!">>,
     <<"P">> \o Assw \o <<"0","r","d","d">>, <<"p">> \o Assw \o <<"o","r","d","!">>,
     <<"P">> \o Assw \o <<"o","r","d","d">>, <<"p">> \o Assw \o <<"0","r","d","d">>,
     <<"p">> \o Assw \o <<"o","r","d","d">>,
     <<"\n">> \o GoodPassword, <<"\n","P">> \o Assw \o <<"o","r","d","d">>}

\* "a", 50 and 51 letters; "R2", "2R"; "O'N", "Al-", ".Al"; "A", line feed, "2";
\* "A", line feed, "-"
Names ==
    {FirstName, LastName, <<"a">>, repeat(<<"a">>, 50), repeat(<<"a">>, 51),
     DigitName, <<"2","R">>, <<"O","'","N">>, <<"A","l","-">>, <<".","A","l">>,
     <<"A","\n","2">>, <<"A","\n","-">>}

FieldValues(f) ==
    CASE f = "username" -> Usernames
      [] f = "email" -> Emails
      [] f = "password" -> Passwords
      [] OTHER -> Names

NextFields ==
    \/ \E f \in UserFields : \E value \in FieldValues(f) :
          users = {} /\ UserCreate([UserA EXCEPT ![f] = value])
    \/ \E f \in UserFields : \E value \in FieldValues(f) :
          UserUpdate(1, [UserA EXCEPT ![f] = value])

SpecFields == Init /\ [][NextFields]_vars

\* the last operation wrote, or tried to write, field f of a user
Wrote(f) == last.op \in {"User.create", "User.update"} /\ Has(last.req, f)

\* field f of the last request was accepted: no message is about it
Accepted(f) == \A e \in last.errors : e[1] # f

\* the messages about field f
Messages(f) == { e[2] : e \in { x \in last.errors : x[1] = f } }

\* some character of value, at whatever position, is of class cls
Contains(value, cls) == \E i \in DOMAIN value : value[i] \in cls

\* C12, as the specification states it: a username is accepted exactly when
\* its length is between 3 and 30 and none of its characters, at any
\* position, is a special character.
C12_UsernameRule ==
    Wrote("username") =>
        (Accepted("username") <=>
            /\ Len(last.req.username) >= 3 /\ Len(last.req.username) <= 30
            /\ ~Contains(last.req.username, Special))

\* the whole of value is local@domain.tld: one "@" with something before
\* it, and after it a "." followed, up to the end, by two or more letters
EmailShape(value) ==
    \E at \in 2..Len(value) : \E dot \in (at + 2)..(Len(value) - 2) :
        /\ \A i \in DOMAIN value : value[i] = "@" <=> i = at
        /\ value[dot] = "."
        /\ \A i \in (dot + 1)..Len(value) : value[i] \in Letter

\* C13, as the specification states it: an email is accepted only if the
\* whole value has the shape local@domain.tld, so that a value with no "@",
\* with no "." after the "@" or with characters after the TLD is rejected.
C13_EmailRule ==
    Wrote("email") => (Accepted("email") => EmailShape(last.req.email))

\* C14, as the specification states it: a password is accepted exactly when
\* its length is between 8 and 100 and it contains an upper-case letter,
\* a digit and a special character; an accepted password is stored as given.
C14_PasswordRule ==
    Wrote("password") =>
        /\ Accepted("password") <=>
              /\ Len(last.req.password) >= 8 /\ Len(last.req.password) <= 100
              /\ Contains(last.req.password, Upper)
              /\ Contains(last.req.password, Digit)
              /\ Contains(last.req.password, Special)
        /\ last.kind = Ok =>
              \A u \in users : u.id = last.id => u.password = last.req.password

\* the length of value is between 2 and 50 and none of its characters,
\* at any position, is a digit or a special character
NameRule(value) ==
    /\ Len(value) >= 2 /\ Len(value) <= 50
    /\ ~Contains(value, Digit)
    /\ ~Contains(value, Special)

\* C16, as the specification states it: firstName and lastName are each
\* accepted exactly when the length is between 2 and 50 and the value holds
\* no digit and no special character at any position.
C16_NameRule ==
    /\ Wrote("firstName") => (Accepted("firstName") <=> NameRule(last.req.firstName))
    /\ Wrote("lastName") => (Accepted("lastName") <=> NameRule(last.req.lastName))

UpperMessage == "Password does not contain at least one uppercase letter"

DigitMessage == "Password does not contain at least one number"

SpecialMessage == "Password does not contain at least one special character"

\* the messages of the content checks among the messages about password
ContentMessages ==
    Messages("password") \cap {UpperMessage, DigitMessage, SpecialMessage}

\* C18, as the specification states it: of the three content checks the
\* first that fails, in the order upper-case letter, digit, special
\* character, gives the message: a password with no upper-case letter
\* reports the upper-case message whatever else it lacks, one with an
\* upper-case letter and no digit the digit message, one that lacks the
\* special character only the special-character message.
C18_FirstFailingCheck ==
    Wrote("password") =>
        /\ ~Contains(last.req.password, Upper) => ContentMessages = {UpperMessage}
        /\ (Contains(last.req.password, Upper) /\ ~Contains(last.req.password, Digit))
              => ContentMessages = {DigitMessage}
        /\ (/\ Contains(last.req.password, Upper)
            /\ Contains(last.req.password, Digit)
            /\ ~Contains(last.req.password, Special))
              => ContentMessages = {SpecialMessage}
        /\ Cardinality(ContentMessages) <= 1

(***************************************************************************)
(* The color of a Tag: tags created and updated with the colors below, and *)
(* created with no color.                                                  *)
(***************************************************************************)
\* "#000000", "#FA0", "#fa0", "#3498db"; "000000", "FA0"; "#", "#0", "#00",
\* "#0000", "#00000", "#00FFFFF", "#00FFFFF0"; "#00000T", "#G00"; "#FA0" and
\* a line feed; null
Colors ==
    {<<"#">> \o repeat(<<"0">>, 6), ShortColor, <<"#","f","a","0">>, DefaultColor,
     repeat(<<"0">>, 6), <<"F","A","0">>,
     <<"#">>, <<"#","0">>, BadColor, <<"#">> \o repeat(<<"0">>, 4),
     <<"#">> \o repeat(<<"0">>, 5), <<"#","0","0">> \o repeat(<<"F">>, 5),
     <<"#","0","0">> \o repeat(<<"F">>, 5) \o <<"0">>,
     <<"#">> \o repeat(<<"0">>, 5) \o <<"T">>, <<"#","G","0","0">>,
     ShortColor \o <<"\n">>, NullStr}

NextColors ==
    \/ \E name \in {TagName, OtherTagName} :
          Room("Tag", MaxTags) /\ TagCreate([name |-> name])
    \/ \E name \in {TagName, OtherTagName} : \E color \in Colors :
          Room("Tag", MaxTags) /\ TagCreate([name |-> name, color |-> color])
    \/ \E color \in Colors : \E id \in Ids(tags) : TagUpdate(id, [color |-> color])

SpecColors == Init /\ [][NextColors]_vars

\* value is "#" followed by exactly 3 or exactly 6 hexadecimal digits
HexColor(value) ==
    /\ value # NullStr
    /\ Len(value) >= 1 /\ value[1] = "#"
    /\ (Len(value) - 1) \in {3, 6}
    /\ \A i \in 2..Len(value) :
          value[i] \in Digit \cup {"a","b","c","d","e","f"} \cup {"A","B","C","D","E","F"}

ProgressTasks ==
    { [title |-> TaskTitle, dueDate |-> d, userId |-> 1, projectId |-> 1] : d \in {1, 2} }
    \cup
    { [title |-> TaskTitle, dueDate |-> d, priority |-> "high", userId |-> 1,
       projectId |-> 1] : d \in {1, 2} }

NextProgress ==
    \/ users = {} /\ UserCreate(UserA)
    \/ projects = {} /\ ProjectCreate(CascadeProject)
    \/ \E req \in ProgressTasks : Room("Task", MaxTasks) /\ TaskCreate(req)
    \/ \E st \in TaskStatus : \E id \in Ids(tasks) : TaskUpdate(id, [status |-> st])
    \/ \E id \in Ids(tasks) : GetProgress(id)

SpecProgress == Init /\ [][NextProgress]_vars

\* the progress the status stands for
ProgressOf(status) ==
    CASE status = "completed" -> "100%"
      [] status = "in_progress" -> "50%"
      [] status = "cancelled" -> "0%"
      [] status = "pending" -> "0%"
      [] OTHER -> "0%"

\* C17: Task.getProgress is a fixed function of the status alone: "100%" for
\* completed, "50%" for in_progress, "0%" for cancelled, pending and any
\* other value; tasks of one status have one progress whatever their
\* dueDate and priority, and a step that leaves a task's status alone
\* leaves its progress alone.
C17_GetProgress ==
    /\ [](/\ \A t \in tasks : getProgress(t) = ProgressOf(t.status)
          /\ \A st \in EnumTaskStatus : getProgress([status |-> st]) = ProgressOf(st)
          /\ \A t1, t2 \in tasks :
                t1.status = t2.status => getProgress(t1) = getProgress(t2)
          /\ last.op = "Task.getProgress" =>
                \A t \in tasks : t.id = last.id => last.ret = ProgressOf(t.status))
    /\ [][\A t1 \in tasks : \A t2 \in tasks' :
            (t1.id = t2.id /\ t1.status = t2.status)
                => getProgress(t2) = getProgress(t1)]_vars

\* "50%" was read for a task in progress, of high priority and due at 2,
\* while another task in progress is of medium priority and due at 1
C17_Witness ==
    /\ last.op = "Task.getProgress" /\ last.ret = "50%"
    /\ \E t \in tasks : /\ t.id = last.id /\ t.status = "in_progress"
                        /\ t.priority = "high" /\ t.dueDate = 2
    /\ \E t \in tasks : /\ t.id # last.id /\ t.status = "in_progress"
                        /\ t.priority = "medium" /\ t.dueDate = 1

\* C19, as the specification states it: after any sequence of Project
\* creates and updates, updates of startDate alone or of endDate alone
\* included, every stored Project has its endDate strictly after its
\* startDate.
C19_EndDateAfterStartDateStored ==
    \A p \in projects : p.endDate > p.startDate

\* every reference of a stored row is to a stored row
ReferencesStored ==
    /\ \A t \in tasks : t.userId \in Ids(users) /\ t.projectId \in Ids(projects)
    /\ \A p \in projects : p.userId \in Ids(users)

C21_EmailUniqueWhateverCase ==
    /\ [](\A u1, u2 \in users :
            u1.id # u2.id => ~SameButCase(u1.email, u2.email))
    /\ [][ (/\ last' # last
            /\ last'.op \in {"User.create", "User.update"}
            /\ Has(last'.req, "email")
            /\ \E u \in users : /\ u.id # last'.id
                                /\ SameButCase(last'.req.email, u.email))
              => /\ last'.kind # Ok
                 /\ last'.kind = Conflict
                 /\ users' = users
         ]_vars

\* "BO@X.IO" was given at the creation of a user whose username nobody
\* has, while "bo@x.io" is stored: the creation ended in the Conflict error
C21_Witness ==
    /\ last.op = "User.create" /\ last.kind = Conflict
    /\ last.req.email = BobMailUpper
    /\ \A u \in users : u.username # last.req.username
    /\ \E u \in users : u.email = BobMail

(***************************************************************************)
(* SpecNullEmail: users created and updated with a null email among the    *)
(* values written.                                                         *)
(***************************************************************************)

NullEmailCreates ==
    {UserA, UserB, UserReq(Bob, NullStr), UserReq(NullStr, NullStr),
     [UserA EXCEPT !.username = NullStr]}

NullEmailUpdates ==
    {[email |-> NullStr], [email |-> BobMailUpper],
     [email |-> NullStr, username |-> Bob], [email |-> NoAtMail],
     [email |-> NullStr, username |-> NullStr],
     [email |-> AliceMail], [username |-> Alice]}

NextNullEmail ==
    \/ \E req \in NullEmailCreates : Room("User", MaxUsers) /\ UserCreate(req)
    \/ \E id \in 1..MaxUsers, req \in NullEmailUpdates : UserUpdate(id, req)
    \/ \E id \in 1..MaxUsers : UserDestroy(id)

SpecNullEmail == Init /\ [][NextNullEmail]_vars

\* the request of the coming outcome writes null to email
WritesNullEmail(op) ==
    /\ last' # last
    /\ last'.op = op
    /\ Has(last'.req, "email")
    /\ last'.req.email = NullStr

\* C22: writing null to a User's email never stores null: a create is
\* rejected with "User.email cannot be null" and writes nothing; an update
\* of a stored user leaves the stored email as it was and never reports
\* that email is null (when email is all the request holds, the update is
\* accepted with the row untouched); no stored User has a null email.
C22_NullEmailNeverStored ==
    /\ [](\A u \in users : u.email # NullStr)
    /\ [][ WritesNullEmail("User.create")
              => /\ last'.kind = ValidationError
                 /\ <<"email", notNull("User", "email")>> \in last'.errors
                 /\ users' = users
         ]_vars
    /\ [][ WritesNullEmail("User.update")
              => /\ \A u \in users : u.id = last'.id =>
                        \E v \in users' : v.id = u.id /\ v.email = u.email
                 /\ ~ <<"email", notNull("User", "email")>> \in last'.errors
                 /\ DOMAIN last'.req = {"email"}
                        => last'.kind = Ok /\ users' = users
         ]_vars

\* user 1, stored with "al@x.io", was updated with {email: null}: the
\* update was accepted and the stored email is still "al@x.io"
C22_Witness ==
    /\ last.op = "User.update" /\ last.kind = Ok
    /\ last.req = [email |-> NullStr]
    /\ \E u \in users : u.id = last.id /\ u.email = toLowerCase(AliceMail)

====
